---- MODULE Spec2Model ----
(***************************************************************************)
(* Model of process_ais.py: the per-aircraft sliding-window engine         *)
(* get_zero_crossings.  One step of the model is one iteration of the      *)
(* loop "for row in df.itertuples()" (lines 74-120), including both        *)
(* exception handlers.                                                     *)
(*                                                                         *)
(* Encodings.                                                              *)
(*  - alt_baro is the text of the CSV cell, a sequence of one-character    *)
(*    strings ("sup2" stands for the character U+00B2, superscript two,    *)
(*    for which str.isdigit() is True and int() raises ValueError).        *)
(*  - nic and the two GPS thresholds are in tenths (0.3 is 3, 8 is 80), so *)
(*    that "mean < threshold" is the integer comparison                    *)
(*    sum < threshold * len.                                               *)
(*  - timestamp_u is in whole seconds; None is a cell that holds no        *)
(*    timestamp (subtracting it raises TypeError).                         *)
(***************************************************************************)
EXTENDS Integers, Sequences, FiniteSets, TLC

\* ---------------------------------------------------------------- constants
\* Window length.  The program's default is 12 (line 13); the model runs the
\* engine with the small window of the specification's worked example.
BUFFER_SIZE == 4
MAX_SAMPLE_DELTA_SECONDS == 120
MIN_ALT_FEET == 10000
\* tenths: 0.3
GPS_THRESHOLD_LOW == 3
\* tenths: 8
GPS_THRESHOLD_HIGH == 80

\* horizontal_range
RADIUS_EARTH == 6371000
\* FEET_TO_METERS = 0.3048 = 381 / 1250
FEET_TO_METERS_NUM == 381
FEET_TO_METERS_DEN == 1250

\* ------------------------------------------------------------------- bounds
\* Number of rows of the input table, per input profile.
MaxRows == 8
MaxRowsGaps == 5
MaxRowsGating == 5
MaxRowsFaults == 4
MaxRowsMulti == 6
MaxRowsEvents == 5
\* Altitudes given to horizontal_range: 0, 1, HeightStep, HeightStep + 1, ...
HeightStep == 5000
MaxHeightSteps == 10

\* A cell that holds no usable value (Python None).
None == 0 - 1

AllColumns == {"hex", "alt_baro", "nic", "timestamp_u", "lat", "lon"}

\* Texts of the alt_baro cell.
Ground == <<"g", "r", "o", "u", "n", "d">>
Alt9999 == <<"9", "9", "9", "9">>
Alt10000 == <<"1", "0", "0", "0", "0">>
Alt20000 == <<"2", "0", "0", "0", "0">>
AltMinus5 == <<"-", "5">>
AltSup2 == <<"2", "sup2">>

VARIABLES
    df,              \* the input table: its columns, the values its cells take, its length
    i,               \* number of rows consumed so far = Index of the next row
    clock,           \* timestamp of the last row read that had one
    pc,              \* "loop" while rows are being read, "done" after the return
    row,             \* the loop variable: the row of the last iteration
    outcome,         \* the path the last iteration took
    flight_dict,     \* hex -> deque of rows
    zero_crossings,  \* the list of emitted events
    inserted,        \* history: hex -> the rows appended to its deque, in order
    windows,         \* history: the deque contents each emitted event was built from
    circles          \* the calls of horizontal_range so far: altitude and result

vars ==
    <<df, i, clock, pc, row, outcome, flight_dict, zero_crossings, inserted, windows,
      circles>>

\* ------------------------------------------------------------ pure helpers
DecimalChars == {"0", "1", "2", "3", "4", "5", "6", "7", "8", "9"}

\* Characters c with c.isdigit(): the decimal digits and digit-like characters
\* such as superscripts.
IsDigitChars == DecimalChars \cup {"sup2"}

DigitValue(c) ==
    CASE c = "0" -> 0 [] c = "1" -> 1 [] c = "2" -> 2 [] c = "3" -> 3
      [] c = "4" -> 4 [] c = "5" -> 5 [] c = "6" -> 6 [] c = "7" -> 7
      [] c = "8" -> 8 [] c = "9" -> 9

\* str(altitude).isdigit()
str_isdigit(s) == Len(s) > 0 /\ \A k \in 1..Len(s) : s[k] \in IsDigitChars

\* int(altitude) raises ValueError (for a text that passed isdigit)
int_raises(s) == \E k \in 1..Len(s) : s[k] \notin DecimalChars

RECURSIVE int_value(_)
int_value(s) ==
    IF Len(s) = 0 THEN 0
    ELSE 10 * int_value(SubSeq(s, 1, Len(s) - 1)) + DigitValue(s[Len(s)])

RECURSIVE sum(_)
sum(xs) == IF Len(xs) = 0 THEN 0 ELSE xs[1] + sum(Tail(xs))

Last(s) == s[Len(s)]

Has(column) == column \in df.columns

NoRow ==
    [Index |-> 0 - 1, hex |-> "", alt_baro |-> <<>>, nic |-> 0,
     timestamp_u |-> 0, lat |-> 0, lon |-> 0]

\* A row of df.itertuples(): Index is the position in the table.
MakeRow(idx, h, a, n, ts) ==
    [Index |-> idx, hex |-> h, alt_baro |-> a, nic |-> n,
     timestamp_u |-> ts, lat |-> 50 + idx, lon |-> 20 + idx]

\* ------------------------------------------------------- the window engine
\* int(BUFFER_SIZE/2)
Half == BUFFER_SIZE \div 2

\* (current_timestamp - last_sample_timestamp) raises TypeError when one of the
\* two cells holds no timestamp; an empty deque returns before the subtraction.
validate_raises(dequeue_list, current_timestamp) ==
    /\ Len(dequeue_list) # 0
    /\ (current_timestamp = None \/ Last(dequeue_list).timestamp_u = None)

\* Variant: the gap test accepts an elapsed time equal to the limit.
validate_sample_interval_inclusive(dequeue_list, current_timestamp) ==
    IF Len(dequeue_list) = 0 THEN TRUE
    ELSE current_timestamp - Last(dequeue_list).timestamp_u <= MAX_SAMPLE_DELTA_SECONDS

validate_sample_interval(dequeue_list, current_timestamp) ==
    IF Len(dequeue_list) = 0 THEN TRUE
    ELSE current_timestamp - Last(dequeue_list).timestamp_u < MAX_SAMPLE_DELTA_SECONDS

\* Variant: a mean equal to GPS_THRESHOLD_LOW counts as lost.
avg_below_low_inclusive(w) == sum(w) <= GPS_THRESHOLD_LOW * Len(w)

\* sum(w) / len(w) < GPS_THRESHOLD_LOW, in tenths
avg_below_low(w) == sum(w) < GPS_THRESHOLD_LOW * Len(w)

\* sum(w) / len(w) >= GPS_THRESHOLD_HIGH, in tenths
avg_at_least_high(w) == sum(w) >= GPS_THRESHOLD_HIGH * Len(w)

\* Variant: one half alone decides ("or" in place of "and").
detect_loss_or_recovery_either(buffer) ==
    LET prior_window == SubSeq(buffer, 1, Half)
        later_window == SubSeq(buffer, Half + 1, Len(buffer))
        recovery_of_gps == avg_below_low(prior_window) \/ avg_at_least_high(later_window)
        loss_of_gps == avg_at_least_high(prior_window) \/ avg_below_low(later_window)
    IN  recovery_of_gps \/ loss_of_gps

detect_loss_or_recovery(buffer) ==
    LET prior_window == SubSeq(buffer, 1, Half)
        later_window == SubSeq(buffer, Half + 1, Len(buffer))
        recovery_of_gps == avg_below_low(prior_window) /\ avg_at_least_high(later_window)
        loss_of_gps == avg_at_least_high(prior_window) /\ avg_below_low(later_window)
    IN  recovery_of_gps \/ loss_of_gps

\* collections.deque(maxlen=BUFFER_SIZE)
get_new_buffer == <<>>

\* Variant: a deque without maxlen.
deque_append_unbounded(dq, r) == Append(dq, r)

\* deque.append on a deque with maxlen=BUFFER_SIZE: a full deque drops its
\* oldest element.
deque_append(dq, r) ==
    IF Len(dq) >= BUFFER_SIZE THEN Append(Tail(dq), r) ELSE Append(dq, r)

get_nics_from_buffer(buffer) == [k \in 1..Len(buffer) |-> buffer[k].nic]

\* Variant: the altitude cutoff is not applied.
on_ground_no_cutoff(altitude) == ~str_isdigit(altitude)

\* the admission test of line 80, for a text on which int() does not raise
on_ground(altitude) ==
    ~str_isdigit(altitude) \/ int_value(altitude) < MIN_ALT_FEET

\* Variant: a first-seen identifier replaces the whole dictionary.
init_flight_reset(fd, hex_code) ==
    IF hex_code \notin DOMAIN fd
    THEN [h \in {hex_code} |-> get_new_buffer]
    ELSE fd

\* lines 84-85
init_flight(fd, hex_code) ==
    IF hex_code \notin DOMAIN fd
    THEN [h \in DOMAIN fd \cup {hex_code} |->
            IF h \in DOMAIN fd THEN fd[h] ELSE get_new_buffer]
    ELSE fd

\* Variant: a stale deque is kept.
flush_stale_never(fd, hex_code, current_timestamp) == fd

\* lines 88-89, when validate_sample_interval does not raise
flush_stale(fd, hex_code, current_timestamp) ==
    IF hex_code \in DOMAIN fd
         /\ ~validate_sample_interval(fd[hex_code], current_timestamp)
    THEN [fd EXCEPT ![hex_code] = get_new_buffer]
    ELSE fd

\* line 92
add_record(fd, r) == [fd EXCEPT ![r.hex] = deque_append(@, r)]

\* Variant: the row is appended before the gap test is evaluated.
store_row_append_first(fd, r) ==
    IF ~Has("timestamp_u") \/ validate_raises(fd[r.hex], r.timestamp_u)
    THEN [raised |-> TRUE, fd |-> add_record(fd, r)]
    ELSE [raised |-> FALSE, fd |-> add_record(flush_stale(fd, r.hex, r.timestamp_u), r)]

\* lines 87-92.  row.timestamp_u raises AttributeError when the table has no
\* such column, the subtraction of line 47 raises TypeError on None; either
\* way nothing has been flushed or appended yet.
store_row(fd, r) ==
    IF ~Has("timestamp_u") \/ validate_raises(fd[r.hex], r.timestamp_u)
    THEN [raised |-> TRUE, fd |-> fd]
    ELSE [raised |-> FALSE, fd |-> add_record(flush_stale(fd, r.hex, r.timestamp_u), r)]

\* Variant: the index is taken as 1-based.
zero_cross_record_before(buffer) == buffer[Half]

\* lines 100-101: flight_dict[hex_code][int(BUFFER_SIZE/2)], 0-based
zero_cross_record(buffer) == buffer[Half + 1]

\* Variant: latitude and longitude are exchanged.
zero_crossing_swapped(rec, nics) ==
    [hex_code |-> rec.hex, alt_baro |-> int_value(rec.alt_baro),
     row_index |-> rec.Index, lat |-> rec.lon, lon |-> rec.lat, nics |-> nics]

\* lines 102-109
zero_crossing(rec, nics) ==
    [hex_code |-> rec.hex, alt_baro |-> int_value(rec.alt_baro),
     row_index |-> rec.Index, lat |-> rec.lat, lon |-> rec.lon, nics |-> nics]

\* Variant: the deque is kept after a crossing.
flush_after_crossing_skipped(fd, hex_code) == fd

\* line 114
flush_after_crossing(fd, hex_code) == [fd EXCEPT ![hex_code] = get_new_buffer]

\* Variant: the handler replaces the deque.
zero_crossing_failure_flush(fd, hex_code) == [fd EXCEPT ![hex_code] = get_new_buffer]

\* lines 115-117: the handler logs and changes nothing
zero_crossing_failure(fd, hex_code) == fd

\* lines 95-117, for a deque that has just reached BUFFER_SIZE records.
\* elem.nic (line 68) and record.lat / record.lon (lines 106-107) raise
\* AttributeError when the table has no such column.
check_zero_crossing(fd, zc, win, ins, r) ==
    LET buffer == fd[r.hex]
        nics == get_nics_from_buffer(buffer)
        failed == [fd |-> zero_crossing_failure(fd, r.hex), zc |-> zc, win |-> win,
                   ins |-> ins, outcome |-> "resolve_failed"]
    IN  IF ~Has("nic") THEN failed
        ELSE IF ~detect_loss_or_recovery(nics)
        THEN [fd |-> fd, zc |-> zc, win |-> win, ins |-> ins, outcome |-> "stored"]
        ELSE IF ~(Has("lat") /\ Has("lon")) THEN failed
        ELSE [fd |-> flush_after_crossing(fd, r.hex),
              zc |-> Append(zc, zero_crossing(zero_cross_record(buffer), nics)),
              win |-> Append(win, buffer), ins |-> ins, outcome |-> "emitted"]

\* lines 74-120: one iteration of the loop on row r.  A raise inside the outer
\* try leaves the state as it is at the raising line.
iteration(fd, zc, win, ins, r) ==
    LET same(o) == [fd |-> fd, zc |-> zc, win |-> win, ins |-> ins, outcome |-> o]
        fd1 == init_flight(fd, r.hex)
        st == store_row(fd1, r)
        fd3 == st.fd
        ins3 == [ins EXCEPT ![r.hex] = Append(@, r)]
    IN  IF ~Has("hex") \/ ~Has("alt_baro") THEN same("failed")
        ELSE IF ~str_isdigit(r.alt_baro) THEN same("skipped")
        ELSE IF int_raises(r.alt_baro) THEN same("failed")
        ELSE IF on_ground(r.alt_baro) THEN same("skipped")
        ELSE IF st.raised
        THEN [fd |-> st.fd, zc |-> zc, win |-> win, ins |-> ins, outcome |-> "failed"]
        ELSE IF Len(fd3[r.hex]) = BUFFER_SIZE
        THEN check_zero_crossing(fd3, zc, win, ins3, r)
        ELSE [fd |-> fd3, zc |-> zc, win |-> win, ins |-> ins3, outcome |-> "stored"]

\* ------------------------------------------------------- horizontal_range
\* Naturals beyond 32 bits: <<hi, lo>> stands for hi * 10^6 + lo, lo < 10^6.
BigBase == 1000 * 1000
ToBig(n) == <<n \div BigBase, n % BigBase>>
BigAdd(x, y) == <<x[1] + y[1] + (x[2] + y[2]) \div BigBase, (x[2] + y[2]) % BigBase>>
\* x * m for 0 <= m <= 1000
BigTimes(x, m) == <<x[1] * m + (x[2] * m) \div BigBase, (x[2] * m) % BigBase>>
\* x * m for any natural m, by the base-1000 digits of m
RECURSIVE BigScale(_, _)
BigScale(x, m) ==
    IF m <= 1000 THEN BigTimes(x, m)
    ELSE BigAdd(BigTimes(BigScale(x, m \div 1000), 1000), BigTimes(x, m % 1000))
BigLess(x, y) == x[1] < y[1] \/ (x[1] = y[1] /\ x[2] < y[2])

\* Variant: the first term lacks the factor height (2*R + h^2).
horizontal_range_sq_no_factor(height) ==
    BigAdd(BigScale(ToBig(2 * RADIUS_EARTH), FEET_TO_METERS_DEN),
           BigScale(ToBig(FEET_TO_METERS_NUM * height), height))

\* lines 128-135.  The value under the square root, 2*R*h + h^2 with
\* h = height * 381/1250, multiplied by 1250^2/381 to stay in the integers:
\* 2*R*1250*height + 381*height^2.  The function returns its square root; as
\* the square root is strictly increasing on the non-negative reals and is 0
\* at 0, two results compare as these values do.
horizontal_range_sq(height) ==
    BigAdd(BigScale(BigScale(ToBig(2 * RADIUS_EARTH), FEET_TO_METERS_DEN), height),
           BigScale(ToBig(FEET_TO_METERS_NUM * height), height))

\* ------------------------------------------------------------ input tables
Hexes == {"A", "B"}

Table(columns, hexes, alts, nics, deltas, length) ==
    [columns |-> columns, hexes |-> hexes, alts |-> alts, nics |-> nics,
     deltas |-> deltas, length |-> length]

\* One aircraft in the air, a report every 10 s; the table may lack one of the
\* columns that only crossing resolution reads.
StreamTables ==
    {Table(AllColumns \ missing, {"A"}, {Alt20000}, {0, 3, 80}, {10}, MaxRows) :
        missing \in {{}, {"lat"}, {"lon"}, {"nic"}}}

\* One aircraft in the air whose reports arrive 60 s, 120 s or 180 s after the
\* previous row, or 180 s before it (a table that is not sorted by time).
GapsTables ==
    {Table(AllColumns, {"A"}, {Alt20000}, {0, 80}, {60, 120, 180, 0 - 180}, MaxRowsGaps)}

\* One aircraft that is on the ground, below the cutoff, at it, or reports a
\* negative altitude; a report comes 10 s or 200 s after the previous row.
GatingTables ==
    {Table(AllColumns, {"A"}, {Ground, Alt9999, Alt10000, AltMinus5}, {0, 80},
           {10, 200}, MaxRowsGating)}

\* Two aircraft; the table may lack any one column, an altitude cell may hold
\* a text that isdigit() accepts and int() rejects, a timestamp cell may be None.
FaultsTables ==
    {Table(AllColumns \ missing, Hexes, {Alt20000, AltSup2}, {0}, {10, None},
           MaxRowsFaults) :
        missing \in {{}} \cup {{c} : c \in AllColumns}}

\* Two aircraft in the air with interleaved reports, 10 s between rows.
MultiTables ==
    {Table(AllColumns, Hexes, {Alt20000}, {0, 80}, {10}, MaxRowsMulti)}

\* One aircraft in the air at one of two altitudes, 10 s between rows.
EventsTables ==
    {Table(AllColumns, {"A"}, {Alt10000, Alt20000}, {0, 80}, {10}, MaxRowsEvents)}

\* ------------------------------------------------------------------ actions
InitEngine ==
    /\ i = 0
    /\ clock = 0
    /\ pc = "loop"
    /\ row = NoRow
    /\ outcome = "start"
    /\ flight_dict = <<>>
    /\ zero_crossings = <<>>
    /\ inserted = [h \in Hexes |-> <<>>]
    /\ windows = <<>>
    /\ circles = <<>>

Init == df \in StreamTables /\ InitEngine

\* Variant: an exception of the outer try is not caught and ends the run.
ProcessRow_uncaught ==
    /\ pc = "loop"
    /\ i < df.length
    /\ \E h \in df.hexes, a \in df.alts, n \in df.nics, d \in df.deltas :
          LET ts == IF d = None THEN None ELSE clock + d
              r == MakeRow(i, h, a, n, ts)
              res == iteration(flight_dict, zero_crossings, windows, inserted, r)
          IN  /\ ts = None \/ ts >= 0
              /\ row' = r
              /\ i' = i + 1
              /\ clock' = IF ts = None THEN clock ELSE ts
              /\ flight_dict' = res.fd
              /\ zero_crossings' = res.zc
              /\ windows' = res.win
              /\ inserted' = res.ins
              /\ outcome' = res.outcome
              /\ pc' = IF res.outcome = "failed" THEN "raised" ELSE pc
    /\ UNCHANGED <<df, circles>>

\* The loop reads the next row of the table and processes it.
ProcessRow ==
    /\ pc = "loop"
    /\ i < df.length
    /\ \E h \in df.hexes, a \in df.alts, n \in df.nics, d \in df.deltas :
          LET ts == IF d = None THEN None ELSE clock + d
              r == MakeRow(i, h, a, n, ts)
              res == iteration(flight_dict, zero_crossings, windows, inserted, r)
          IN  /\ ts = None \/ ts >= 0
              /\ row' = r
              /\ i' = i + 1
              /\ clock' = IF ts = None THEN clock ELSE ts
              /\ flight_dict' = res.fd
              /\ zero_crossings' = res.zc
              /\ windows' = res.win
              /\ inserted' = res.ins
              /\ outcome' = res.outcome
    /\ UNCHANGED <<df, pc, circles>>

\* The table is exhausted: lines 122-125 return zero_crossings.
Return ==
    /\ pc = "loop"
    /\ pc' = "done"
    /\ UNCHANGED <<df, i, clock, row, outcome, flight_dict, zero_crossings,
                   inserted, windows, circles>>

Next == ProcessRow \/ Return

Spec == Init /\ [][Next]_vars

InitGaps == df \in GapsTables /\ InitEngine
SpecGaps == InitGaps /\ [][Next]_vars

InitGating == df \in GatingTables /\ InitEngine
SpecGating == InitGating /\ [][Next]_vars

InitFaults == df \in FaultsTables /\ InitEngine
SpecFaults == InitFaults /\ [][Next]_vars

InitMulti == df \in MultiTables /\ InitEngine
SpecMulti == InitMulti /\ [][Next]_vars

InitEvents == df \in EventsTables /\ InitEngine
SpecEvents == InitEvents /\ [][Next]_vars

\* The loop is the only thread of control: as long as a step is possible, one
\* is taken.
SpecFaultsFair == InitFaults /\ [][Next]_vars /\ WF_vars(Next)

\* lines 142-151: create_kml draws the circle of the next event.
CreateKml ==
    /\ pc = "done"
    /\ Len(circles) < Len(zero_crossings)
    /\ LET elem == zero_crossings[Len(circles) + 1]
       IN  circles' = Append(circles, [alt |-> elem.alt_baro,
                                       radius_sq |-> horizontal_range_sq(elem.alt_baro)])
    /\ UNCHANGED <<df, i, clock, pc, row, outcome, flight_dict, zero_crossings,
                   inserted, windows>>

\* main (lines 173-174): get_zero_crossings, then create_kml.
NextMain == ProcessRow \/ Return \/ CreateKml

SpecGatingMain == InitGating /\ [][NextMain]_vars

\* horizontal_range on its own: two calls with altitudes from Heights.
Heights ==
    {k * HeightStep + j : k \in 0..MaxHeightSteps, j \in {0, 1}}

CallHorizontalRange ==
    /\ Len(circles) < 2
    /\ \E height \in Heights :
          circles' = Append(circles, [alt |-> height,
                                      radius_sq |-> horizontal_range_sq(height)])
    /\ UNCHANGED <<df, i, clock, pc, row, outcome, flight_dict, zero_crossings,
                   inserted, windows>>

SpecRange == InitGating /\ [][CallHorizontalRange]_vars

\* ------------------------------------------------------- checked properties
\* The deque of hex h, empty when flight_dict has no entry for h.
BufferOf(fd, h) == IF h \in DOMAIN fd THEN fd[h] ELSE <<>>

\* The last iteration appended its row to a deque.
RowInserted ==
    /\ row.hex \in Hexes
    /\ inserted[row.hex] # <<>>
    /\ Last(inserted[row.hex]) = row

\* Elapsed seconds from record p to record q.
Elapsed(p, q) == q.timestamp_u - p.timestamp_u

\* Positions k such that the k-th and (k+1)-th inserted records of h are at
\* least MAX_SAMPLE_DELTA_SECONDS apart.
GapPositions(h) ==
    {k \in 1..(Len(inserted[h]) - 1) :
        /\ inserted[h][k].timestamp_u # None
        /\ inserted[h][k + 1].timestamp_u # None
        /\ Elapsed(inserted[h][k], inserted[h][k + 1]) >= MAX_SAMPLE_DELTA_SECONDS}

\* C1: whenever an iteration appends an event to zero_crossings, the deque of
\* the event's identifier is empty at the end of that iteration.
C1_BufferEmptyAfterCrossing ==
    [][Len(zero_crossings') > Len(zero_crossings)
         => /\ Last(zero_crossings').hex_code = row'.hex
            /\ row'.hex \in DOMAIN flight_dict'
            /\ Len(flight_dict'[row'.hex]) = 0]_vars

\* C1 witness: an event has just been emitted for one aircraft while the other
\* aircraft's deque holds records.
C1_Witness ==
    /\ outcome = "emitted"
    /\ zero_crossings # <<>>
    /\ Last(zero_crossings).hex_code = row.hex
    /\ \E h \in DOMAIN flight_dict : h # row.hex /\ flight_dict[h] # <<>>

IsNumberText(s) ==
    /\ Len(s) > 0
    /\ IF s[1] = "-"
       THEN Len(s) > 1 /\ \A k \in 2..Len(s) : s[k] \in DecimalChars
       ELSE \A k \in 1..Len(s) : s[k] \in DecimalChars

NumberValue(s) == IF s[1] = "-" THEN 0 - int_value(Tail(s)) ELSE int_value(s)

\* The records the admission filter is to discard.
Rejected(altitude) ==
    \/ altitude = Ground
    \/ IsNumberText(altitude) /\ NumberValue(altitude) < MIN_ALT_FEET

NicsOf(buffer) == [k \in 1..Len(buffer) |-> buffer[k].nic]

\* C4: no deque and no event window ever holds a record whose altitude is the
\* ground marker or a number below MIN_ALT_FEET, and an event's nics are the
\* integrity values of the records of its window.
C4_RejectedNeverBuffered ==
    /\ \A h \in DOMAIN flight_dict :
          \A k \in 1..Len(flight_dict[h]) : ~Rejected(flight_dict[h][k].alt_baro)
    /\ Len(windows) = Len(zero_crossings)
    /\ \A e \in 1..Len(windows) :
          /\ zero_crossings[e].nics = NicsOf(windows[e])
          /\ \A k \in 1..Len(windows[e]) : ~Rejected(windows[e][k].alt_baro)
    /\ Rejected(row.alt_baro) => outcome = "skipped"

\* C4 witness: an event whose window skips over a row of the table, which the
\* admission filter discarded.
C4_Witness ==
    \E e \in 1..Len(windows) :
        \E k \in 1..(Len(windows[e]) - 1) :
            windows[e][k + 1].Index > windows[e][k].Index + 1

\* Means of the two halves against the thresholds (tenths), for a list n of
\* integrity values.
PriorSum(n) == sum(SubSeq(n, 1, Half))
LaterSum(n) == sum(SubSeq(n, Half + 1, Len(n)))
Recovery(n) ==
    /\ PriorSum(n) < GPS_THRESHOLD_LOW * Half
    /\ LaterSum(n) >= GPS_THRESHOLD_HIGH * (Len(n) - Half)
Loss(n) ==
    /\ PriorSum(n) >= GPS_THRESHOLD_HIGH * Half
    /\ LaterSum(n) < GPS_THRESHOLD_LOW * (Len(n) - Half)

\* C5: an iteration that inserts its row and raises nothing appends an event
\* if and only if the deque, after the insertion, holds exactly BUFFER_SIZE
\* records whose half means satisfy Recovery or Loss (< for LOW, >= for HIGH).
C5_EmitIffFullAndCrossing ==
    [][(i' = i + 1 /\ outcome' \in {"stored", "emitted"})
         => LET emitted == Len(zero_crossings') = Len(zero_crossings) + 1
                n == IF emitted THEN Last(zero_crossings').nics
                     ELSE NicsOf(flight_dict'[row'.hex])
            IN  /\ emitted \/ zero_crossings' = zero_crossings
                /\ emitted <=> (Len(n) = BUFFER_SIZE /\ (Recovery(n) \/ Loss(n)))]_vars

\* C5 witness: an event whose later mean is exactly GPS_THRESHOLD_HIGH and
\* whose prior half holds a value that is not below GPS_THRESHOLD_LOW.
C5_Witness ==
    /\ outcome = "emitted"
    /\ LET n == Last(zero_crossings).nics
       IN  /\ LaterSum(n) = GPS_THRESHOLD_HIGH * (Len(n) - Half)
           /\ \E k \in 1..Half : n[k] >= GPS_THRESHOLD_LOW

\* Events of identifier h.
EventsOf(h) == {e \in 1..Len(zero_crossings) : zero_crossings[e].hex_code = h}

\* Every adjacent pair of the sequence is less than MAX_SAMPLE_DELTA_SECONDS apart.
Contiguous(recs) ==
    \A k \in 1..(Len(recs) - 1) :
        /\ recs[k].timestamp_u # None
        /\ recs[k + 1].timestamp_u # None
        /\ Elapsed(recs[k], recs[k + 1]) < MAX_SAMPLE_DELTA_SECONDS

AllLowThenHigh(n) ==
    /\ \A k \in 1..Half : n[k] < GPS_THRESHOLD_LOW
    /\ \A k \in (Half + 1)..Len(n) : n[k] >= GPS_THRESHOLD_HIGH
AllHighThenLow(n) ==
    /\ \A k \in 1..Half : n[k] >= GPS_THRESHOLD_HIGH
    /\ \A k \in (Half + 1)..Len(n) : n[k] < GPS_THRESHOLD_LOW

\* C6: when an identifier's stream so far is exactly BUFFER_SIZE inserted
\* records, contiguous in time, first half all below LOW and second half all at
\* least HIGH (or the reverse), and the table has every column, exactly one
\* event exists for it, built from the record at 0-based index BUFFER_SIZE/2.
C6_OneEventAtMidpoint ==
    \A h \in Hexes :
        LET recs == inserted[h]
        IN  (/\ df.columns = AllColumns
             /\ Len(recs) = BUFFER_SIZE
             /\ Contiguous(recs)
             /\ (AllLowThenHigh(NicsOf(recs)) \/ AllHighThenLow(NicsOf(recs))))
            => /\ Cardinality(EventsOf(h)) = 1
               /\ \A e \in EventsOf(h) :
                     /\ zero_crossings[e].row_index = recs[Half + 1].Index
                     /\ zero_crossings[e].nics = NicsOf(recs)

\* C6 witness: a stream of BUFFER_SIZE records, high then low, and its event.
C6_Witness ==
    /\ df.columns = AllColumns
    /\ Len(inserted["A"]) = BUFFER_SIZE
    /\ AllHighThenLow(NicsOf(inserted["A"]))
    /\ Len(zero_crossings) = 1

\* C7: an identifier whose inserted records all carry the same integrity value
\* has no event.
C7_ConstantNicNoCrossing ==
    \A h \in Hexes :
        (\A j, k \in 1..Len(inserted[h]) : inserted[h][j].nic = inserted[h][k].nic)
            => EventsOf(h) = {}

\* C7 witness: more than BUFFER_SIZE records of one value have been checked as
\* full windows of a table that has every column, and no event exists.
C7_Witness ==
    /\ df.columns = AllColumns
    /\ Len(inserted["A"]) > BUFFER_SIZE
    /\ \A k \in 1..Len(inserted["A"]) : inserted["A"][k].nic = 80
    /\ zero_crossings = <<>>

\* C8: (a) when the deque after an insertion holds BUFFER_SIZE records that
\* satisfy neither Recovery nor Loss, no event is appended and the deque keeps
\* these BUFFER_SIZE records; (b) a record inserted into a full deque within
\* the gap limit leaves the old records but the oldest, followed by the new
\* record, and this is the window that is checked.
C8_FullWindowSlidesByOne ==
    [][(i' = i + 1 /\ row'.hex \in Hexes /\ inserted'[row'.hex] # inserted[row'.hex])
         => LET h == row'.hex
                old == BufferOf(flight_dict, h)
                emitted == Len(zero_crossings') > Len(zero_crossings)
                checked == IF emitted THEN Last(windows') ELSE flight_dict'[h]
            IN  /\ (/\ ~emitted
                    /\ Len(old) >= BUFFER_SIZE - 1
                    /\ old # <<>> => Elapsed(Last(old), row') < MAX_SAMPLE_DELTA_SECONDS
                    /\ ~(Recovery(NicsOf(checked)) \/ Loss(NicsOf(checked))))
                      => /\ zero_crossings' = zero_crossings
                         /\ Len(flight_dict'[h]) = BUFFER_SIZE
                         /\ Last(flight_dict'[h]) = row'
                /\ (/\ Len(old) = BUFFER_SIZE
                    /\ Elapsed(Last(old), row') < MAX_SAMPLE_DELTA_SECONDS)
                      => /\ checked = Append(Tail(old), row')
                         /\ outcome' # "resolve_failed"
                              => (emitted <=> (Recovery(NicsOf(checked))
                                                 \/ Loss(NicsOf(checked))))]_vars

\* C8 witness: a full deque that was checked without an event has slid by one
\* and is full again.
C8_Witness ==
    /\ outcome = "stored"
    /\ zero_crossings = <<>>
    /\ Len(inserted["A"]) > BUFFER_SIZE
    /\ Len(flight_dict["A"]) = BUFFER_SIZE
    /\ flight_dict["A"] =
          SubSeq(inserted["A"], Len(inserted["A"]) - BUFFER_SIZE + 1, Len(inserted["A"]))

\* The deque the specification describes after inserting record r into old:
\* a stale deque is dropped, a full one loses its oldest record.
ExpectedInsert(old, r) ==
    IF old # <<>> /\ Elapsed(Last(old), r) >= MAX_SAMPLE_DELTA_SECONDS THEN <<r>>
    ELSE IF Len(old) = BUFFER_SIZE THEN Append(Tail(old), r)
    ELSE Append(old, r)

\* C9 as claimed: when the full deque satisfied the Loss/Recovery test and
\* building the event failed, the identifier's deque is empty afterwards.
C9_BufferResetAfterFailedResolution ==
    (/\ outcome = "resolve_failed"
     /\ "nic" \in df.columns
     /\ LET n == NicsOf((inserted[row.hex]))
        IN  Len(n) >= BUFFER_SIZE
              /\ LET w == SubSeq(n, Len(n) - BUFFER_SIZE + 1, Len(n))
                 IN  Recovery(w) \/ Loss(w))
        => Len(flight_dict[row.hex]) = 0

\* C9 amended: a failed crossing resolution appends no event, the loop goes on,
\* and the identifier's deque is left as the insertion made it: full, with the
\* triggering record last.
C9_BufferKeptAfterFailedResolution ==
    [][(i' = i + 1 /\ outcome' = "resolve_failed")
         => LET h == row'.hex
                old == BufferOf(flight_dict, h)
            IN  /\ zero_crossings' = zero_crossings
                /\ pc' = "loop"
                /\ Len(flight_dict'[h]) = BUFFER_SIZE
                /\ flight_dict'[h] = ExpectedInsert(old, row')]_vars

\* C9 witness: the full deque passed the Loss/Recovery test and building the
\* event failed on a missing lat or lon column.
C9_Witness ==
    /\ outcome = "resolve_failed"
    /\ "nic" \in df.columns
    /\ Len(flight_dict[row.hex]) = BUFFER_SIZE
    /\ Recovery(NicsOf(flight_dict[row.hex])) \/ Loss(NicsOf(flight_dict[row.hex]))

\* C10: an iteration that ends in the outer handler appends no event, stores
\* its row nowhere, leaves the records of every deque as they were, and the
\* loop goes on to the next row.
C10_FailedRecordSkipped ==
    [][(i' = i + 1 /\ outcome' = "failed")
         => /\ zero_crossings' = zero_crossings
            /\ inserted' = inserted
            /\ pc' = "loop"
            /\ DOMAIN flight_dict \subseteq DOMAIN flight_dict'
            /\ \A h \in Hexes :
                  /\ BufferOf(flight_dict', h) = BufferOf(flight_dict, h)
                  /\ \A k \in 1..Len(BufferOf(flight_dict', h)) :
                        BufferOf(flight_dict', h)[k] # row']_vars

\* C10 witness: a row in the air failed on its timestamp while both aircraft
\* had records buffered.
C10_Witness ==
    /\ outcome = "failed"
    /\ df.columns = AllColumns
    /\ row.alt_baro = Alt20000
    /\ \A h \in Hexes : BufferOf(flight_dict, h) # <<>>

\* The engine run on the sequence recs alone, from its initial state.
RECURSIVE SoloRun(_)
SoloRun(recs) ==
    IF Len(recs) = 0
    THEN [fd |-> <<>>, zc |-> <<>>, win |-> <<>>,
          ins |-> [h \in Hexes |-> <<>>], outcome |-> "start"]
    ELSE LET prev == SoloRun(SubSeq(recs, 1, Len(recs) - 1))
         IN  iteration(prev.fd, prev.zc, prev.win, prev.ins, Last(recs))

EventsSeqOf(h) == SelectSeq(zero_crossings, LAMBDA e : e.hex_code = h)

\* C11: in every state the events of each identifier are, in order, the events
\* of a run on that identifier's records alone, and so is its deque: no record
\* of another identifier has changed it.  (In SpecMulti every row of an
\* identifier is inserted, so inserted[h] is the sequence of its records.)
C11_IdentifiersIndependent ==
    \A h \in Hexes :
        LET solo == SoloRun(inserted[h])
        IN  /\ EventsSeqOf(h) = solo.zc
            /\ BufferOf(flight_dict, h) = BufferOf(solo.fd, h)

\* C11 witness: an event of one aircraft whose window is interleaved with rows
\* of the other aircraft, whose deque holds records.
C11_Witness ==
    /\ \E e \in 1..Len(windows) :
          \E k \in 1..(Len(windows[e]) - 1) :
              windows[e][k + 1].Index > windows[e][k].Index + 1
    /\ \A h \in Hexes : inserted[h] # <<>>
    /\ \E h \in DOMAIN flight_dict : flight_dict[h] # <<>>

\* C12: every deque holds at most BUFFER_SIZE records, flight_dict has entries
\* only for identifiers seen so far, and the records buffered in total are at
\* most BUFFER_SIZE times the number of identifiers seen.
SeenHexes == {h \in Hexes : inserted[h] # <<>>}

RECURSIVE TotalBuffered(_)
TotalBuffered(hs) ==
    IF hs = {} THEN 0
    ELSE LET h == CHOOSE x \in hs : TRUE
         IN  Len(BufferOf(flight_dict, h)) + TotalBuffered(hs \ {h})

C12_MemoryBounded ==
    /\ \A h \in DOMAIN flight_dict : Len(flight_dict[h]) <= BUFFER_SIZE
    /\ DOMAIN flight_dict \subseteq SeenHexes
    /\ TotalBuffered(Hexes) <= Cardinality(SeenHexes) * BUFFER_SIZE

\* C12 witness: an aircraft has sent more than BUFFER_SIZE records without an
\* event, its deque is full, and the other aircraft has a deque too.
C12_Witness ==
    /\ DOMAIN flight_dict = Hexes
    /\ zero_crossings = <<>>
    /\ \E h \in Hexes :
          Len(inserted[h]) > BUFFER_SIZE /\ Len(flight_dict[h]) = BUFFER_SIZE

C14_RangeStrictlyIncreasing ==
    \A j, k \in 1..Len(circles) :
        /\ circles[j].alt < circles[k].alt
              => BigLess(circles[j].radius_sq, circles[k].radius_sq)
        /\ circles[j].alt = 0 => circles[j].radius_sq = <<0, 0>>

\* C14 witness: calls at altitude 0 and at altitude 1 have been made.
C14_Witness ==
    /\ Len(circles) = 2
    /\ circles[1].alt = 0
    /\ circles[2].alt = 1

\* C15: an iteration that appends an event builds it from the record at
\* 0-based index BUFFER_SIZE/2 of the deque as it stands after the insertion of
\* the row: hex_code, alt_baro, row_index, lat and lon are that record's, and
\* nics lists the integrity values of the BUFFER_SIZE records in arrival order.
C15_EventFromMidpointRecord ==
    [][(Len(zero_crossings') = Len(zero_crossings) + 1)
         => LET buffer == ExpectedInsert(BufferOf(flight_dict, row'.hex), row')
                rec == buffer[Half + 1]
                ev == Last(zero_crossings')
            IN  /\ Len(buffer) = BUFFER_SIZE
                /\ ev.hex_code = rec.hex
                /\ ev.alt_baro = NumberValue(rec.alt_baro)
                /\ ev.row_index = rec.Index
                /\ ev.lat = rec.lat
                /\ ev.lon = rec.lon
                /\ ev.nics = NicsOf(buffer)
                /\ SubSeq(zero_crossings', 1, Len(zero_crossings)) = zero_crossings]_vars

\* C15 witness: an event whose midpoint record is the only one of its window
\* at 10000 ft, and the event reports 10000 ft.
C15_Witness ==
    /\ outcome = "emitted"
    /\ LET w == Last(windows)
       IN  /\ w[Half + 1].alt_baro = Alt10000
           /\ \A k \in (1..Len(w)) \ {Half + 1} : w[k].alt_baro = Alt20000
    /\ Last(zero_crossings).alt_baro = 10000

\* The deque of the row's identifier as it stands right after the insertion of
\* the row, before a crossing empties it.
AfterInsert ==
    IF outcome' = "emitted" THEN Last(windows') ELSE flight_dict'[row'.hex]

\* C16 as claimed: when a record is inserted for an identifier whose deque is
\* not empty, the old contents are discarded if the elapsed time since the last
\* inserted record is more than MAX_SAMPLE_DELTA_SECONDS, and otherwise they
\* are kept and the record is appended to them.
C16_FlushIffElapsedExceeds ==
    [][(/\ i' = i + 1
        /\ outcome' \in {"stored", "emitted"}
        /\ BufferOf(flight_dict, row'.hex) # <<>>)
         => LET old == BufferOf(flight_dict, row'.hex)
            IN  IF Elapsed(Last(old), row') > MAX_SAMPLE_DELTA_SECONDS
                THEN AfterInsert = <<row'>>
                ELSE AfterInsert = deque_append(old, row')]_vars

\* C17 as claimed: whenever a record is inserted, the identifier's deque holds
\* fewer than BUFFER_SIZE records beforehand, so no record is ever evicted.
C17_NeverFullBeforeAppend ==
    [][(i' = i + 1 /\ row'.hex \in Hexes /\ inserted'[row'.hex] # inserted[row'.hex])
         => Len(BufferOf(flight_dict, row'.hex)) < BUFFER_SIZE]_vars

\* C17 amended: whenever a record is inserted, the identifier's deque holds at
\* most BUFFER_SIZE records beforehand and at most BUFFER_SIZE afterwards; when
\* it held exactly BUFFER_SIZE and the record arrives within the gap limit, the
\* deque evicts exactly its oldest record.
C17_EvictionKeepsCapacity ==
    [][(i' = i + 1 /\ row'.hex \in Hexes /\ inserted'[row'.hex] # inserted[row'.hex])
         => LET old == BufferOf(flight_dict, row'.hex)
            IN  /\ Len(old) <= BUFFER_SIZE
                /\ Len(AfterInsert) <= BUFFER_SIZE
                /\ (Len(old) = BUFFER_SIZE
                      /\ Elapsed(Last(old), row') < MAX_SAMPLE_DELTA_SECONDS)
                     => /\ AfterInsert = Append(Tail(old), row')
                        /\ \A k \in 1..Len(AfterInsert) : AfterInsert[k] # old[1]]_vars

\* C17 witness: a record was inserted into a full deque, whose oldest record
\* is gone while the identifier's later records remain.
C17_Witness ==
    /\ RowInserted
    /\ outcome = "stored"
    /\ Len(inserted[row.hex]) = BUFFER_SIZE + 1
    /\ flight_dict[row.hex] = Tail(inserted[row.hex])

\* C18: every event has alt_baro >= MIN_ALT_FEET, hence >= 0, and every call
\* of horizontal_range made by create_kml has the altitude of its event, which
\* is not negative.
C18_EventAltitudeAtLeastCutoff ==
    /\ \A e \in 1..Len(zero_crossings) :
          /\ zero_crossings[e].alt_baro >= MIN_ALT_FEET
          /\ zero_crossings[e].alt_baro >= 0
    /\ Len(circles) <= Len(zero_crossings)
    /\ \A c \in 1..Len(circles) :
          /\ circles[c].alt = zero_crossings[c].alt_baro
          /\ circles[c].alt >= 0

\* C18 witness: the table ended with a record of negative altitude, and
\* create_kml has drawn the circle of an event.
C18_Witness ==
    /\ pc = "done"
    /\ row.alt_baro = AltMinus5
    /\ Len(circles) = 1
    /\ Len(zero_crossings) = 1

\* Index values of the records of a window.
IndexSet(w) == {w[k].Index : k \in 1..Len(w)}

\* C19: the windows of two events of one identifier share no record, and the
\* identifier has at least BUFFER_SIZE inserted records after the last record
\* of the earlier window up to and including the last record of the later one.
C19_EventWindowsDisjoint ==
    \A e1, e2 \in 1..Len(zero_crossings) :
        (e1 < e2 /\ zero_crossings[e1].hex_code = zero_crossings[e2].hex_code)
            => LET h == zero_crossings[e1].hex_code
                   recs == inserted[h]
                   between == {k \in 1..Len(recs) :
                                  /\ recs[k].Index > Last(windows[e1]).Index
                                  /\ recs[k].Index <= Last(windows[e2]).Index}
               IN  /\ IndexSet(windows[e1]) \cap IndexSet(windows[e2]) = {}
                   /\ Cardinality(between) >= BUFFER_SIZE

\* C19 witness: two events of one identifier out of 2 * BUFFER_SIZE records.
C19_Witness ==
    /\ Len(zero_crossings) = 2
    /\ zero_crossings[1].hex_code = zero_crossings[2].hex_code
    /\ Len(inserted[zero_crossings[1].hex_code]) = 2 * BUFFER_SIZE

\* C20: an iteration on a record that the admission filter is to discard
\* changes no deque, creates none, and appends no event.
C20_RejectedLeavesStateUnchanged ==
    [][(i' = i + 1 /\ Has("alt_baro") /\ Rejected(row'.alt_baro))
         => /\ flight_dict' = flight_dict
            /\ DOMAIN flight_dict' = DOMAIN flight_dict
            /\ zero_crossings' = zero_crossings
            /\ inserted' = inserted]_vars

\* C20 witness: a rejected record arrived at least MAX_SAMPLE_DELTA_SECONDS
\* after the last record of its identifier's deque, which is still there.
C20_Witness ==
    /\ outcome = "skipped"
    /\ Rejected(row.alt_baro)
    /\ BufferOf(flight_dict, row.hex) # <<>>
    /\ Elapsed(Last(BufferOf(flight_dict, row.hex)), row) >= MAX_SAMPLE_DELTA_SECONDS

====
